---- MODULE Spec2Model ----
(***************************************************************************)
(* MultitaskVariationalStrategy                                            *)
(* (gpytorch/variational/multitask_variational_strategy.py): a wrapper     *)
(* around a base variational strategy that reinterprets one batch          *)
(* dimension as the task dimension, with memoized pass-through accessors   *)
(* and a cache reset on every call made in training mode.                  *)
(*                                                                         *)
(* Shapes are sequences of axis sizes.  Python's 0-based, possibly         *)
(* negative dimension indices are kept as they are in the source and are   *)
(* converted to a 1-based position only where an axis is selected.         *)
(***************************************************************************)
EXTENDS Integers, Sequences, FiniteSets, TLC

\* Bounds of the model.
MaxRank == 2
MaxSize == 2
MaxTaskDim == 2
MaxTasks == 2
MaxVersion == 1

VARIABLES
    base_variational_strategy, \* self.base_variational_strategy (a reference)
    task_dim,                  \* self.task_dim
    num_tasks,                 \* self.num_tasks
    training,                  \* self.training (inherited mode flag)
    memoize_cache,             \* self._memoize_cache: attribute present?, entries
    base,                      \* the base strategy's own current state
    args,                      \* history: the constructor's arguments
    last_read,                 \* history: per accessor, the object it returned
                               \*   since the last call made in training mode
    changed,                   \* history: per accessor, has the base's value
                               \*   changed since that object was returned
    discarded,                 \* history: per accessor, the object that was
                               \*   last_read when the last training call came
    ret                        \* the last operation and what it returned/raised

vars == <<base_variational_strategy, task_dim, num_tasks, training,
          memoize_cache, base, args, last_read, changed, discarded, ret>>

-----------------------------------------------------------------------------
\* Objects, shapes and tensors

Accessors == {"prior_distribution", "variational_distribution"}
CacheNames == {"prior_distribution_memo", "variational_distribution_memo"}

\* A distribution object of the base strategy: which accessor made it and
\* which version of the base's parameters it was built from.
None == [kind |-> "None", ver |-> 0]
Objects == [kind : Accessors, ver : 0..MaxVersion]

Shapes == UNION {[1..r -> 1..MaxSize] : r \in 0..MaxRank}

Indices(shape) ==
    {idx \in [1..Len(shape) -> 1..MaxSize] : \A k \in 1..Len(shape) : idx[k] <= shape[k]}

RemoveAt(s, k) == [i \in 1..(Len(s) - 1) |-> IF i < k THEN s[i] ELSE s[i + 1]]

InsertAt(s, k, v) ==
    [i \in 1..(Len(s) + 1) |-> IF i < k THEN s[i] ELSE IF i = k THEN v ELSE s[i - 1]]

\* Python's wrapping of a negative dimension index, as a 1-based position.
WrapDim(dim, r) == (IF dim < 0 THEN dim + r ELSE dim) + 1

\* Does dim name one of r existing axes?
IsAxis(dim, r) == WrapDim(dim, r) \in 1..r

NoShape == << >>
NoTensor == [shape |-> NoShape, vals |-> [idx \in Indices(NoShape) |-> 0]]
NoDist == [batch_shape |-> NoShape, event_shape_last |-> 0]
NoInput == [kind |-> "none", batch_shape |-> NoShape]

RECURSIVE SumAxis(_, _, _, _)
SumAxis(t, idx, k, i) ==
    IF i = 0 THEN 0 ELSE t.vals[InsertAt(idx, k, i)] + SumAxis(t, idx, k, i - 1)

\* Tensor.sum(dim): the axis dim is reduced, the others are kept in order.
\* A 0-dimensional tensor accepts dim in {-1, 0} and is returned as it is.
sum(t, dim) ==
    LET r == Len(t.shape)
        k == WrapDim(dim, r)
        shape == RemoveAt(t.shape, k)
    IN IF r = 0
       THEN t
       ELSE [shape |-> shape,
             vals |-> [idx \in Indices(shape) |-> SumAxis(t, idx, k, t.shape[k])]]

-----------------------------------------------------------------------------
\* The base variational strategy and the distribution library (collaborators)

\* What base_variational_strategy(inputs) / .prior(inputs) can answer: an
\* error of its own, or a function distribution with some batch shape (its
\* event shape, the number of data points, plays no part here).
BaseRaised == [kind |-> "BaseError", batch_shape |-> NoShape]
BaseOutcomes == {BaseRaised} \cup [kind : {"ok"}, batch_shape : Shapes]

\* The answers of a base strategy that has one batch dimension.
RankOneShapes == {s \in Shapes : Len(s) = 1}
RankOneOutcomes == {BaseRaised} \cup [kind : {"ok"}, batch_shape : RankOneShapes]

Raised(kind, branch) == [kind |-> kind, branch |-> branch, dist |-> NoDist]
Returned(d, branch) ==
    [kind |-> "ok", branch |-> branch,
     dist |-> [batch_shape |-> d.batch_shape, event_shape_last |-> d.event_shape_last]]

\* function_dist.to_multitask_from_batch(task_dim): the batch axis task_dim
\* leaves the batch shape and becomes the trailing (task) event dimension;
\* event_shape_last is event_shape[-1] of the result.
\* What the library does with an index that names no batch axis is fixed
\* neither by the source nor by the specification: it may raise, or hand
\* back a distribution whose trailing dimension is anything.
to_multitask_from_batch(fd, td) ==
    LET r == Len(fd.batch_shape)
        k == WrapDim(td, r)
    IN IF IsAxis(td, r)
       THEN {[kind |-> "ok", batch_shape |-> RemoveAt(fd.batch_shape, k),
              event_shape_last |-> fd.batch_shape[k]]}
       ELSE {[kind |-> "LibraryError", batch_shape |-> NoShape, event_shape_last |-> 0]}
            \cup {[kind |-> "ok", batch_shape |-> fd.batch_shape,
                   event_shape_last |-> t] : t \in 1..MaxSize}

\* function_dist.to_multitask(num_tasks): a task-less distribution is
\* expanded to num_tasks tasks; the batch shape is kept.
to_multitask(fd, nt) ==
    [kind |-> "ok", batch_shape |-> fd.batch_shape, event_shape_last |-> nt]

RECURSIVE Weight(_, _)
Weight(idx, k) ==
    IF k = 0 THEN 0 ELSE idx[k] + (MaxSize + 1) * Weight(idx, k - 1)

\* The per-task KL divergence of q from p: one value per batch index, a
\* different one at every index.
PerTaskKL(q, p, shape) ==
    [shape |-> shape,
     vals |-> [idx \in Indices(shape) |-> Weight(idx, Len(shape)) + q.ver + p.ver]]

\* gpytorch.utils.memoize
EmptyDict == [nm \in CacheNames |-> None]
NoCache == [has |-> FALSE, d |-> EmptyDict]
is_in_cache(cache, name) == cache.has /\ cache.d[name] # None
add_to_cache(cache, name, val) == [has |-> TRUE, d |-> [cache.d EXCEPT ![name] = val]]
get_from_cache(cache, name) == cache.d[name]
cached(cache, name, val) ==
    LET c == IF is_in_cache(cache, name) THEN cache ELSE add_to_cache(cache, name, val)
    IN [cache |-> c, value |-> get_from_cache(c, name)]

-----------------------------------------------------------------------------
\* MultitaskVariationalStrategy

init_default_minus_two(a) ==
    [base_variational_strategy |-> a.base,
     task_dim |-> IF a.given THEN a.task_dim ELSE -2,
     num_tasks |-> a.num_tasks]

\* __init__(self, base_variational_strategy, num_tasks, task_dim=-1)
init(a) ==
    [base_variational_strategy |-> a.base,
     task_dim |-> IF a.given THEN a.task_dim ELSE -1,
     num_tasks |-> a.num_tasks]

prior_distribution_returns_variational(cache, b) ==
    cached(cache, "prior_distribution_memo", b.variational_distribution)

\* @property @cached(name="prior_distribution_memo")
prior_distribution(cache, b) ==
    cached(cache, "prior_distribution_memo", b.prior_distribution)

variational_distribution_shares_entry(cache, b) ==
    cached(cache, "prior_distribution_memo", b.variational_distribution)

\* @property @cached(name="variational_distribution_memo")
variational_distribution(cache, b) ==
    cached(cache, "variational_distribution_memo", b.variational_distribution)

variational_params_initialized(b) == b.variational_params_initialized

forward_without_assert(base_out, td, nt) ==
    IF base_out.kind # "ok"
    THEN {Raised(base_out.kind, "")}
    ELSE {IF m.kind # "ok" THEN Raised(m.kind, "from_batch") ELSE Returned(m, "from_batch") :
            m \in to_multitask_from_batch(base_out, td)}

\* forward(self, inputs); base_out is what base_variational_strategy(inputs) did
forward(base_out, td, nt) ==
    IF base_out.kind # "ok"
    THEN {Raised(base_out.kind, "")}
    ELSE {IF m.kind # "ok" THEN Raised(m.kind, "from_batch")
          ELSE IF m.event_shape_last = nt
               THEN Returned(m, "from_batch")
               ELSE Raised("AssertionError", "from_batch") :
            m \in to_multitask_from_batch(base_out, td)}

\* _VariationalStrategy.kl_divergence: the divergence of
\* self.variational_distribution from self.prior_distribution, both read
\* through the wrapper's own accessors.
super_kl_divergence(cache, b, shape) ==
    LET q == variational_distribution(cache, b)
        p == prior_distribution(q.cache, b)
    IN [cache |-> p.cache, q |-> q.value, p |-> p.value,
        value |-> PerTaskKL(q.value, p.value, shape)]

\* kl_divergence(self): super().kl_divergence().sum(dim=-1)
kl_divergence(cache, b, shape) ==
    LET s == super_kl_divergence(cache, b, shape)
    IN [cache |-> s.cache, q |-> s.q, p |-> s.p, arg |-> s.value,
        value |-> sum(s.value, -1)]

prior_without_assert(base_out, td, nt) ==
    IF base_out.kind # "ok"
    THEN {Raised(base_out.kind, "")}
    ELSE LET r == Len(base_out.batch_shape)
         IN IF (td > 0 /\ td > r) \/ (td < 0 /\ td + r < 0)
            THEN {Returned(to_multitask(base_out, nt), "expand")}
            ELSE {IF m.kind # "ok" THEN Raised(m.kind, "from_batch")
                  ELSE Returned(m, "from_batch") :
                    m \in to_multitask_from_batch(base_out, td)}

\* prior(self, inputs); base_out is what base_variational_strategy.prior(inputs) did
prior(base_out, td, nt) ==
    IF base_out.kind # "ok"
    THEN {Raised(base_out.kind, "")}
    ELSE LET r == Len(base_out.batch_shape)
         IN IF (td > 0 /\ td > r) \/ (td < 0 /\ td + r < 0)
            THEN {Returned(to_multitask(base_out, nt), "expand")}
            ELSE {IF m.kind # "ok" THEN Raised(m.kind, "from_batch")
                  ELSE IF m.event_shape_last = nt
                       THEN Returned(m, "from_batch")
                       ELSE Raised("AssertionError", "from_batch") :
                    m \in to_multitask_from_batch(base_out, td)}

call_never_clears(tr, cache, base_out, td, nt) ==
    {[cache |-> cache, result |-> res] : res \in forward(base_out, td, nt)}

call_clears_in_any_mode(tr, cache, base_out, td, nt) ==
    LET c == IF cache.has THEN [has |-> TRUE, d |-> EmptyDict] ELSE cache
    IN {[cache |-> c, result |-> res] : res \in forward(base_out, td, nt)}

call_clears_on_success(tr, cache, base_out, td, nt) ==
    LET c == IF tr /\ cache.has THEN [has |-> TRUE, d |-> EmptyDict] ELSE cache
    IN {[cache |-> IF res.kind = "ok" THEN c ELSE cache, result |-> res] :
          res \in forward(base_out, td, nt)}

\* __call__(self, x): in training mode an existing _memoize_cache is deleted
\* and replaced by an empty dict; then Module.__call__ runs forward(x).
call(tr, cache, base_out, td, nt) ==
    LET c == IF tr
             THEN IF cache.has THEN [has |-> TRUE, d |-> EmptyDict] ELSE cache
             ELSE cache
    IN {[cache |-> c, result |-> res] : res \in forward(base_out, td, nt)}

-----------------------------------------------------------------------------
\* The state machine: one action per operation of the wrapper, plus the two
\* things its surroundings do to it (mode switches, changes of the base).

NoRet ==
    [op |-> "init", kind |-> "ok", name |-> "", obj |-> None, branch |-> "",
     fd |-> NoInput, dist |-> NoDist, arg |-> NoTensor, value |-> NoTensor,
     flag |-> 0]

CtorArgs ==
    {a \in [base : {"base_strategy"}, num_tasks : 1..MaxTasks,
            given : BOOLEAN, task_dim : (-MaxTaskDim)..MaxTaskDim] :
        ~a.given => a.task_dim = 0}

\* After MultitaskVariationalStrategy(base, num_tasks[, task_dim]): Module.__init__
\* leaves the module in training mode, and no _memoize_cache attribute exists.
Init ==
    \E a \in CtorArgs :
        LET s == init(a)
        IN /\ args = a
           /\ base_variational_strategy = s.base_variational_strategy
           /\ task_dim = s.task_dim
           /\ num_tasks = s.num_tasks
           /\ training = TRUE
           /\ memoize_cache = NoCache
           /\ base = [prior_distribution |-> [kind |-> "prior_distribution", ver |-> 0],
                      variational_distribution |->
                          [kind |-> "variational_distribution", ver |-> 0],
                      variational_params_initialized |-> 0]
           /\ last_read = [acc \in Accessors |-> None]
           /\ changed = [acc \in Accessors |-> FALSE]
           /\ discarded = [acc \in Accessors |-> None]
           /\ ret = NoRet

Fields == <<base_variational_strategy, task_dim, num_tasks, args>>
History == <<last_read, changed, discarded>>

\* x = strategy.prior_distribution
ReadPriorDistribution ==
    LET r == prior_distribution(memoize_cache, base)
    IN /\ memoize_cache' = r.cache
       /\ last_read' = [last_read EXCEPT !["prior_distribution"] = r.value]
       /\ ret' = [NoRet EXCEPT !.op = "read", !.name = "prior_distribution",
                               !.obj = r.value]
       /\ UNCHANGED <<Fields, training, base, changed, discarded>>

\* x = strategy.variational_distribution
ReadVariationalDistribution ==
    LET r == variational_distribution(memoize_cache, base)
    IN /\ memoize_cache' = r.cache
       /\ last_read' = [last_read EXCEPT !["variational_distribution"] = r.value]
       /\ ret' = [NoRet EXCEPT !.op = "read", !.name = "variational_distribution",
                               !.obj = r.value]
       /\ UNCHANGED <<Fields, training, base, changed, discarded>>

\* x = strategy.variational_params_initialized
ReadVariationalParamsInitialized ==
    /\ ret' = [NoRet EXCEPT !.op = "variational_params_initialized",
                            !.flag = variational_params_initialized(base)]
    /\ UNCHANGED <<Fields, training, memoize_cache, base, History>>

\* strategy.forward(inputs), invoked directly; bo is the base's answer
Forward(bo) ==
    \E res \in forward(bo, task_dim, num_tasks) :
        /\ ret' = [NoRet EXCEPT !.op = "forward", !.kind = res.kind,
                                !.branch = res.branch, !.fd = bo, !.dist = res.dist]
        /\ UNCHANGED <<Fields, training, memoize_cache, base, History>>

\* strategy.prior(inputs); bo is the base's answer
Prior(bo) ==
    \E res \in prior(bo, task_dim, num_tasks) :
        /\ ret' = [NoRet EXCEPT !.op = "prior", !.kind = res.kind,
                                !.branch = res.branch, !.fd = bo, !.dist = res.dist]
        /\ UNCHANGED <<Fields, training, memoize_cache, base, History>>

\* strategy.kl_divergence(); shape is the batch shape of the base's distributions
KlDivergence(shape) ==
    LET k == kl_divergence(memoize_cache, base, shape)
    IN /\ memoize_cache' = k.cache
       /\ last_read' = [last_read EXCEPT !["variational_distribution"] = k.q,
                                         !["prior_distribution"] = k.p]
       /\ ret' = [NoRet EXCEPT !.op = "kl_divergence", !.arg = k.arg,
                               !.value = k.value]
       /\ UNCHANGED <<Fields, training, base, changed, discarded>>

\* strategy(x); bo is the base's answer
Call(bo) ==
    \E c \in call(training, memoize_cache, bo, task_dim, num_tasks) :
        /\ memoize_cache' = c.cache
        /\ last_read' = IF training THEN [acc \in Accessors |-> None] ELSE last_read
        /\ changed' = IF training THEN [acc \in Accessors |-> FALSE] ELSE changed
        /\ discarded' = IF training THEN last_read ELSE discarded
        /\ ret' = [NoRet EXCEPT !.op = "call", !.kind = c.result.kind,
                                !.branch = c.result.branch, !.fd = bo,
                                !.dist = c.result.dist]
        /\ UNCHANGED <<Fields, training, base>>

\* strategy.train(mode) / strategy.eval(): the inherited mode flag is set
Train(mode) ==
    /\ training' = mode
    /\ ret' = [NoRet EXCEPT !.op = "train"]
    /\ UNCHANGED <<Fields, memoize_cache, base, History>>

\* The base strategy's parameters change (an optimizer step): from now on it
\* answers with new distribution objects.
BaseStep ==
    /\ base.prior_distribution.ver < MaxVersion
    /\ base' = [base EXCEPT !.prior_distribution.ver = @ + 1,
                            !.variational_distribution.ver = @ + 1,
                            !.variational_params_initialized = 1]
    /\ changed' = [acc \in Accessors |-> changed[acc] \/ last_read[acc] # None]
    /\ ret' = [NoRet EXCEPT !.op = "base_step"]
    /\ UNCHANGED <<Fields, training, memoize_cache, last_read, discarded>>

\* The wrapper in use over a base strategy with one batch dimension: every
\* operation, mode switches and optimizer steps.
Next ==
    \/ ReadPriorDistribution
    \/ ReadVariationalDistribution
    \/ ReadVariationalParamsInitialized
    \/ \E bo \in RankOneOutcomes : Forward(bo)
    \/ \E bo \in RankOneOutcomes : Prior(bo)
    \/ \E shape \in RankOneShapes : KlDivergence(shape)
    \/ \E bo \in RankOneOutcomes : Call(bo)
    \/ \E mode \in BOOLEAN : Train(mode)
    \/ BaseStep

Spec == Init /\ [][Next]_vars

\* The shape computations over base strategies of every batch shape.
ShapeNext ==
    \/ \E bo \in BaseOutcomes : Forward(bo)
    \/ \E bo \in BaseOutcomes : Prior(bo)
    \/ \E shape \in Shapes : KlDivergence(shape)

ShapeSpec == Init /\ [][ShapeNext]_vars

-----------------------------------------------------------------------------
\* Properties

AxisSize(shape, dim) == shape[WrapDim(dim, Len(shape))]
CacheIsEmpty(cache) == \A nm \in CacheNames : ~is_in_cache(cache, nm)

\* C1: kl_divergence() is the per-task KL divergence summed over the axis
\* that task_dim names, for every task_dim that names an axis of it; the
\* other batch axes are kept.
C1_KlSumsOverTaskDim ==
    (ret.op = "kl_divergence" /\ IsAxis(task_dim, Len(ret.arg.shape)))
        => ret.value = sum(ret.arg, task_dim)

\* C2: prior(inputs) reinterprets the batch axis task_dim exactly when
\* task_dim is a valid index into the base prior's batch shape, and expands
\* the task-less distribution to num_tasks tasks in every other case.
C2_PriorBranchesOnValidIndex ==
    (ret.op = "prior" /\ ret.fd.kind = "ok")
        => (ret.branch = "from_batch" <=> IsAxis(task_dim, Len(ret.fd.batch_shape)))

\* C3: forward(inputs) never returns a distribution whose last event dimension
\* differs from num_tasks; when the base's output has size T along the batch
\* axis task_dim, forward returns the reinterpreted distribution (that axis
\* moved out of the batch shape, trailing event dimension T) if T = num_tasks
\* and fails with an AssertionError, returning nothing, otherwise.
C3_ForwardReturnsNumTasksOrRaises ==
    ret.op = "forward" =>
        /\ ret.kind = "ok" => ret.dist.event_shape_last = num_tasks
        /\ (ret.fd.kind = "ok" /\ IsAxis(task_dim, Len(ret.fd.batch_shape))) =>
              IF AxisSize(ret.fd.batch_shape, task_dim) = num_tasks
              THEN /\ ret.kind = "ok"
                   /\ ret.dist.event_shape_last = AxisSize(ret.fd.batch_shape, task_dim)
                   /\ ret.dist.batch_shape =
                          RemoveAt(ret.fd.batch_shape,
                                   WrapDim(task_dim, Len(ret.fd.batch_shape)))
              ELSE ret.kind = "AssertionError" /\ ret.dist = NoDist

C3_Witness ==
    /\ ret.op = "forward"
    /\ ret.kind = "AssertionError"
    /\ Len(ret.fd.batch_shape) = MaxRank
    /\ task_dim = 0
    /\ AxisSize(ret.fd.batch_shape, task_dim) # num_tasks

\* C4: a call of the wrapper in training mode leaves no memoized entry behind
\* (also when forward then fails), and the first read of an accessor after
\* such a call returns the base strategy's current object, not the object
\* that was memoized before the call.
C4_TrainingCallDiscardsCache ==
    [][/\ (ret'.op = "call" /\ training) => CacheIsEmpty(memoize_cache')
       /\ (ret'.op = "read" /\ last_read[ret'.name] = None)
              => ret'.obj = base[ret'.name]]_vars

C4_Witness ==
    /\ ret.op = "read"
    /\ discarded[ret.name] # None
    /\ ret.obj # discarded[ret.name]
    /\ ret.obj = base[ret.name]

\* C5: a read of an accessor that has been read since the last call made in
\* training mode returns the identical object again, whatever happened in
\* between and in whichever mode; and each accessor returns an object of its
\* own kind, never the other accessor's.
C5_MemoizedReadsAreIdentical ==
    [][ret'.op = "read" =>
          /\ ret'.obj.kind = ret'.name
          /\ last_read[ret'.name] # None => ret'.obj = last_read[ret'.name]]_vars

C5_Witness ==
    /\ ~training
    /\ ret.op = "read"
    /\ ret.name = "variational_distribution"
    /\ ret.obj # base[ret.name]
    /\ last_read["prior_distribution"] # None

C7_ReadsAreNeverStale ==
    ret.op = "read" => ret.obj = base[ret.name]

\* C7 (amended): a read of an accessor returns the base strategy's current
\* object whenever the base strategy has not changed since the accessor's
\* entry was filled, that is since its first read after construction or
\* after the last call made in training mode.
C7_ReadsAreCurrentUnlessBaseChanged ==
    (ret.op = "read" /\ ~changed[ret.name]) => ret.obj = base[ret.name]

C7_Witness ==
    /\ ret.op = "read"
    /\ ~training
    /\ ~changed[ret.name]
    /\ ret.obj.ver > 0
    /\ changed[CHOOSE acc \in Accessors : acc # ret.name]

\* C8: every distribution prior(inputs) returns has last event dimension
\* num_tasks: the expansion branch always returns, with num_tasks tasks; the
\* reinterpretation of an existing batch axis returns if that axis has size
\* num_tasks and fails with an AssertionError otherwise.
C8_PriorReturnsNumTasks ==
    ret.op = "prior" =>
        /\ ret.kind = "ok" => ret.dist.event_shape_last = num_tasks
        /\ ret.branch = "expand" =>
              ret.kind = "ok" /\ ret.dist.batch_shape = ret.fd.batch_shape
        /\ (ret.branch = "from_batch" /\ IsAxis(task_dim, Len(ret.fd.batch_shape))) =>
              IF AxisSize(ret.fd.batch_shape, task_dim) = num_tasks
              THEN ret.kind = "ok"
              ELSE ret.kind = "AssertionError" /\ ret.dist = NoDist

C8_Witness ==
    /\ ret.op = "prior"
    /\ ret.branch = "from_batch"
    /\ ret.kind = "AssertionError"
    /\ IsAxis(task_dim, Len(ret.fd.batch_shape))
    /\ AxisSize(ret.fd.batch_shape, task_dim) # num_tasks

\* C9: only a call made in training mode removes or replaces a memoized
\* entry; a call in evaluation mode, a mode switch, forward, prior and
\* variational_params_initialized leave the cache exactly as it was, and
\* accessor reads and kl_divergence only add entries.
C9_OnlyTrainingCallRemovesEntries ==
    [][/\ ~(ret'.op = "call" /\ training) =>
              /\ memoize_cache.has => memoize_cache'.has
              /\ \A nm \in CacheNames :
                    is_in_cache(memoize_cache, nm)
                        => memoize_cache'.d[nm] = memoize_cache.d[nm]
       /\ (\/ ret'.op = "call" /\ ~training
           \/ ret'.op \in {"train", "forward", "prior",
                           "variational_params_initialized"})
              => memoize_cache' = memoize_cache]_vars

C9_Witness ==
    /\ ret.op = "call"
    /\ ~training
    /\ \A nm \in CacheNames : is_in_cache(memoize_cache, nm)
    /\ \E acc \in Accessors : changed[acc]

\* C10: after a call of the wrapper that fails, the cache holds no entry if
\* the call was made in training mode and is exactly what it was if the call
\* was made in evaluation mode; the fields are unchanged.
C10_FailedCallKeepsInvalidation ==
    [][(ret'.op = "call" /\ ret'.kind # "ok") =>
          /\ training => CacheIsEmpty(memoize_cache')
          /\ ~training => memoize_cache' = memoize_cache
          /\ base_variational_strategy' = base_variational_strategy
          /\ task_dim' = task_dim
          /\ num_tasks' = num_tasks]_vars

C10_Witness ==
    /\ ret.op = "call"
    /\ ret.kind = "AssertionError"
    /\ training
    /\ \A acc \in Accessors : discarded[acc] # None
    /\ CacheIsEmpty(memoize_cache)

====
